---- MODULE Spec2Model ----
(***************************************************************************)
(* Book Tracker API (src/main.py): four authenticated routes over the      *)
(* "books" table of an external store.                                     *)
(*                                                                         *)
(* The store is the table itself (books) with the ids and timestamps it    *)
(* assigns (nextId, clock).  A request is the dependency get_current_user  *)
(* followed by the route handler.  create_book and get_books issue one     *)
(* store call and are one step each; delete_book and update_book issue two *)
(* store calls (the ownership select, then the mutation), so they are two  *)
(* steps, and steps of other requests may come between them: pending holds *)
(* the local variables of the handlers that are between their two calls.   *)
(* Every store call is atomic; one that raises has changed nothing.        *)
(*                                                                         *)
(* last is the request that took the latest step, with the response it     *)
(* ended with (if it ended) and the store calls it has issued.  It is kept *)
(* for one state: Forget clears it before the next step is taken.          *)
(***************************************************************************)
EXTENDS Bags, FiniteSets, Integers, Sequences, TLC

VARIABLES books, nextId, clock, pending, last

vars == <<books, nextId, clock, pending, last>>

\* Number of rows the store ever inserts (ids 1..MaxBooks).
MaxBooks == 2
\* Number of delete_book/update_book handlers between their two store calls.
MaxPending == 2

\* Python's None: an absent Optional field or query parameter.
None == "None"

valid_statuses == {"reading", "completed", "wishlist"}

Users == {"A", "B"}

\* Texts a client sends as status_filter: the enumeration, a text outside it
\* and the empty text.
StatusInputs == valid_statuses \cup {"bogus", ""}

----------------------------------------------------------------------------
(* Credentials *)

\* A bearer credential, by what jwt.decode looks at.  header is FALSE when
\* the request carries no Authorization: Bearer header.
GoodToken(u) ==
    [header |-> TRUE, wellformed |-> TRUE, alg |-> "HS256",
     key |-> "SUPABASE_JWT_SECRET", expired |-> FALSE,
     aud |-> "authenticated", sub |-> u]

Tokens ==
    {GoodToken(u) : u \in Users} \cup
    { [GoodToken("A") EXCEPT !.header = FALSE],
      [GoodToken("A") EXCEPT !.wellformed = FALSE],
      [GoodToken("A") EXCEPT !.alg = "HS512"],
      [GoodToken("A") EXCEPT !.key = "other"],
      [GoodToken("A") EXCEPT !.expired = TRUE],
      [GoodToken("A") EXCEPT !.aud = "anon"],
      [GoodToken("A") EXCEPT !.aud = None],
      [GoodToken("A") EXCEPT !.sub = None],
      [GoodToken("A") EXCEPT !.sub = ""] }

Response(code, detail, message, data) ==
    [code |-> code, detail |-> detail, message |-> message, data |-> data]

HTTPException(code, detail) == Response(code, detail, "", <<>>)

\* jwt.decode called without audience="authenticated".
jwt_decode_AnyAudience(token) ==
    IF ~token.wellformed THEN [ok |-> FALSE, error |-> "DecodeError"]
    ELSE IF token.alg # "HS256"
         THEN [ok |-> FALSE, error |-> "InvalidAlgorithmError"]
    ELSE IF token.key # "SUPABASE_JWT_SECRET"
         THEN [ok |-> FALSE, error |-> "InvalidSignatureError"]
    ELSE IF token.expired
         THEN [ok |-> FALSE, error |-> "ExpiredSignatureError"]
    ELSE [ok |-> TRUE, sub |-> token.sub]

\* jwt.decode(token, SUPABASE_JWT_SECRET, algorithms=["HS256"],
\* audience="authenticated"): the payload, or an InvalidTokenError.
jwt_decode(token) ==
    IF ~token.wellformed THEN [ok |-> FALSE, error |-> "DecodeError"]
    ELSE IF token.alg # "HS256"
         THEN [ok |-> FALSE, error |-> "InvalidAlgorithmError"]
    ELSE IF token.key # "SUPABASE_JWT_SECRET"
         THEN [ok |-> FALSE, error |-> "InvalidSignatureError"]
    ELSE IF token.expired
         THEN [ok |-> FALSE, error |-> "ExpiredSignatureError"]
    ELSE IF token.aud = None
         THEN [ok |-> FALSE, error |-> "MissingRequiredClaimError"]
    ELSE IF token.aud # "authenticated"
         THEN [ok |-> FALSE, error |-> "InvalidAudienceError"]
    ELSE [ok |-> TRUE, sub |-> token.sub]

\* The codes HTTPBearer answers with when the header is missing: 403 in the
\* FastAPI releases before the change to 401.
NotAuthenticatedCodes == {401, 403}

\* security = HTTPBearer(): the possible outcomes for the credential.
security(token) ==
    IF token.header
    THEN {[ok |-> TRUE]}
    ELSE {[ok |-> FALSE, resp |-> HTTPException(c, "Not authenticated")]
             : c \in NotAuthenticatedCodes}

\* `if not user_id`: None and the empty string are falsy.
Falsy(x) == x = None \/ x = ""

\* get_current_user: the possible outcomes, a user id or the response that
\* ends the request.
get_current_user(token) ==
    { IF ~cred.ok THEN cred
      ELSE LET payload == jwt_decode(token) IN
           IF ~payload.ok
           THEN [ok |-> FALSE, resp |-> HTTPException(401, "Invalid token")]
           ELSE IF Falsy(payload.sub)
           THEN [ok |-> FALSE, resp |-> HTTPException(401, "Invalid token")]
           ELSE [ok |-> TRUE, user_id |-> payload.sub]
      : cred \in security(token) }

----------------------------------------------------------------------------
(* The store: supabase.table("books") *)

Row(id, title, author, st, created_at, user_id) ==
    [id |-> id, title |-> title, author |-> author, status |-> st,
     created_at |-> created_at, user_id |-> user_id]

\* .eq(column, value) filters, as a function from column to value.
Matches(row, filters) == \A col \in DOMAIN filters : row[col] = filters[col]

\* select("*").eq(...).execute()
Select(rows, filters) == {r \in rows : Matches(r, filters)}

\* update(data).eq(...): the table after the call.  data is the set of the
\* <<column, value>> of the dict.
UpdateRow(row, data) ==
    [col \in DOMAIN row |->
        IF \E p \in data : p[1] = col
        THEN (CHOOSE p \in data : p[1] = col)[2]
        ELSE row[col]]

UpdateRows(rows, data, filters) ==
    {IF Matches(r, filters) THEN UpdateRow(r, data) ELSE r : r \in rows}

\* update(...).execute().data: the rows the call changed.
UpdatedData(rows, data, filters) ==
    {UpdateRow(r, data) : r \in Select(rows, filters)}

\* delete().eq(...): the table after the call.
DeleteRows(rows, filters) == {r \in rows : ~Matches(r, filters)}

\* order("created_at", desc=True): every listing of rows, each row once,
\* newest first; rows with equal created_at come in any order.
OrderDesc(rows) ==
    LET n == Cardinality(rows) IN
    {s \in [1..n -> rows] :
        /\ \A i, j \in 1..n : i # j => s[i] # s[j]
        /\ \A i, j \in 1..n : i < j => s[i].created_at >= s[j].created_at}

\* A set of at most one row as result.data.
AsList(rows) == IF rows = {} THEN <<>> ELSE <<CHOOSE r \in rows : TRUE>>

\* One store call, as the handler issued it.
Call(kind, user_id) == [kind |-> kind, user_id |-> user_id]

----------------------------------------------------------------------------
(* Requests *)

Ops == {"create", "list", "delete", "update"}

NoBody == [title |-> None, author |-> None, status |-> None]

\* The request that took the latest step.  phase is "auth" when the
\* dependency ended it, "check" when the handler is between its two store
\* calls or ended at or before the first, "done" when it ended after its
\* last store call.
Request(op, token, user_id, book_id, body, status_filter, phase, resp, calls) ==
    [op |-> op, token |-> token, user_id |-> user_id, book_id |-> book_id,
     body |-> body, status_filter |-> status_filter, phase |-> phase,
     resp |-> resp, calls |-> calls]

NoResponse == Response(0, "", "", <<>>)

\* No step taken yet, or the latest one already observed.
NoRequest ==
    Request("none", GoodToken("A"), None, 0, NoBody, None, "none",
            NoResponse, <<>>)

\* The latest step has been observed: the next one may be taken.
Idle == last = NoRequest

Init ==
    /\ books = {}
    /\ nextId = 1
    /\ clock = 1
    /\ pending = EmptyBag
    /\ last = NoRequest

\* Any route whose dependency get_current_user raises: the handler does
\* not run.
RejectUnauthenticated(op, token) ==
    \E auth \in get_current_user(token) :
        /\ ~auth.ok
        /\ last' = Request(op, token, None, 0, NoBody, None, "auth",
                           auth.resp, <<>>)
        /\ UNCHANGED <<books, nextId, clock, pending>>

StatusDetail == "Status must be one of: reading, completed, wishlist"
FilterDetail == "Status filter must be one of: reading, completed, wishlist"

\* BookCreate: status defaults to "reading" when the body has none.
BookCreate(body) ==
    [body EXCEPT !.status = IF body.status = None THEN "reading" ELSE @]

\* create_book with the test of result.data inverted.
CreateResultInverted(data) ==
    IF data # <<>>
    THEN HTTPException(500, "500: Failed to create book")
    ELSE Response(200, "", "", data)

\* create_book, after the insert: `if not result.data` raises the 500 that
\* the `except Exception` around it answers with a 500 carrying str(e).
CreateResult(data) ==
    IF data = <<>>
    THEN HTTPException(500, "500: Failed to create book")
    ELSE Response(200, "", "", data)

\* POST /books.  storeOk is FALSE when the store call raises.
create_book(token, body, storeOk) ==
    \E auth \in get_current_user(token) :
        /\ auth.ok
        /\ LET book == BookCreate(body)
               user_id == auth.user_id
               Done(resp, calls) ==
                   last' = Request("create", token, user_id, 0, body, None,
                                   "done", resp, calls)
           IN
           IF book.status \notin valid_statuses
           THEN /\ Done(HTTPException(400, StatusDetail), <<>>)
                /\ UNCHANGED <<books, nextId, clock, pending>>
           ELSE IF ~storeOk
           THEN /\ Done(HTTPException(500, "store error"),
                        <<Call("insert", user_id)>>)
                /\ UNCHANGED <<books, nextId, clock, pending>>
           ELSE /\ nextId <= MaxBooks
                /\ \E now \in {clock, clock + 1} :
                     LET row == Row(nextId, book.title, book.author,
                                    book.status, now, user_id)
                     IN /\ books' = books \cup {row}
                        /\ clock' = now
                        /\ Done(CreateResult(<<row>>),
                                <<Call("insert", user_id)>>)
                /\ nextId' = nextId + 1
                /\ UNCHANGED pending

\* A handler between its two store calls: its local variables.
Frame(op, token, user_id, book_id, body, update_data, calls) ==
    [op |-> op, token |-> token, user_id |-> user_id, book_id |-> book_id,
     body |-> body, update_data |-> update_data, calls |-> calls]

\* .eq("id", book_id).eq("user_id", user_id)
OwnerFilter(book_id, user_id) == [id |-> book_id, user_id |-> user_id]

\* The ownership check without its user_id filter.
ExistingBookAnyOwner(rows, book_id, user_id) ==
    Select(rows, [id |-> book_id])

\* existing_book.data: the select of the ownership check.
ExistingBook(rows, book_id, user_id) ==
    Select(rows, OwnerFilter(book_id, user_id))

\* get_books without the .eq("status", status_filter).
ListFiltersNoStatus(user_id, status_filter) == [user_id |-> user_id]

\* get_books: the filters of the query, `if status_filter` being false for
\* None and for the empty string.
ListFilters(user_id, status_filter) ==
    IF Falsy(status_filter)
    THEN [user_id |-> user_id]
    ELSE [user_id |-> user_id, status |-> status_filter]

\* get_books: the 400 raised inside `try` is an Exception, and the handler's
\* only `except` clause answers it with a 500 carrying str(e).
ListInvalidFilter == HTTPException(500, "400: " \o FilterDetail)

\* GET /books
get_books(token, status_filter, storeOk) ==
    \E auth \in get_current_user(token) :
        /\ auth.ok
        /\ LET user_id == auth.user_id
               Done(resp, calls) ==
                   last' = Request("list", token, user_id, 0, NoBody,
                                   status_filter, "done", resp, calls)
           IN
           IF ~Falsy(status_filter) /\ status_filter \notin valid_statuses
           THEN Done(ListInvalidFilter, <<>>)
           ELSE IF ~storeOk
           THEN Done(HTTPException(500, "store error"),
                     <<Call("select", user_id)>>)
           ELSE \E data \in OrderDesc(Select(books,
                                  ListFilters(user_id, status_filter))) :
                    Done(Response(200, "", "", data),
                         <<Call("select", user_id)>>)
        /\ UNCHANGED <<books, nextId, clock, pending>>

\* delete_book, after the select: the response that ends the request
\* there, or NoResponse.
DeleteCheck(rows, book_id, user_id) ==
    IF ExistingBook(rows, book_id, user_id) = {}
    THEN HTTPException(404, "Book not found")
    ELSE NoResponse

\* delete_book up to the ownership check: the select, and the 404.
delete_book_check(token, book_id, storeOk) ==
    \E auth \in get_current_user(token) :
        /\ auth.ok
        /\ LET user_id == auth.user_id
               calls == <<Call("select", user_id)>>
               Step(resp) ==
                   last' = Request("delete", token, user_id, book_id, NoBody,
                                   None, "check", resp, calls)
           IN
           IF ~storeOk
           THEN /\ Step(HTTPException(500, "store error"))
                /\ UNCHANGED pending
           ELSE IF DeleteCheck(books, book_id, user_id) # NoResponse
           THEN /\ Step(DeleteCheck(books, book_id, user_id))
                /\ UNCHANGED pending
           ELSE /\ BagCardinality(pending) < MaxPending
                /\ Step(NoResponse)
                /\ pending' = pending (+) SetToBag({Frame("delete", token,
                                  user_id, book_id, NoBody, {}, calls)})
        /\ UNCHANGED <<books, nextId, clock>>

\* delete_book from the delete call on: result is not looked at.
DeleteResult(data) == Response(200, "", "Book deleted successfully", <<>>)

delete_book_mutate(f, storeOk) ==
    /\ BagIn(f, pending)
    /\ f.op = "delete"
    /\ pending' = pending (-) SetToBag({f})
    /\ LET filters == OwnerFilter(f.book_id, f.user_id)
           calls == Append(f.calls, Call("delete", f.user_id))
           Done(resp) ==
               last' = Request("delete", f.token, f.user_id, f.book_id,
                               f.body, None, "done", resp, calls)
       IN
       IF ~storeOk
       THEN /\ Done(HTTPException(500, "store error"))
            /\ UNCHANGED books
       ELSE /\ books' = DeleteRows(books, filters)
            /\ Done(DeleteResult(AsList(Select(books, filters))))
    /\ UNCHANGED <<nextId, clock>>

\* update_data built with `elif`: the first supplied field only.
UpdateDataFirstOnly(body) ==
    IF body.title # None THEN {<<"title", body.title>>}
    ELSE IF body.author # None THEN {<<"author", body.author>>}
    ELSE IF body.status # None THEN {<<"status", body.status>>}
    ELSE {}

\* update_book: update_data, as the set of <<column, value>> it holds.
UpdateData(body) ==
    {<<col, body[col]>> : col \in {c \in {"title", "author", "status"} :
                                        body[c] # None}}

\* update_book without the check of status against valid_statuses.
UpdateValidationNoStatus(body) ==
    IF UpdateData(body) = {}
    THEN HTTPException(400, "No fields to update")
    ELSE NoResponse

\* update_book between the ownership check and the update call: the
\* response that ends the request there, or NoResponse.
UpdateValidation(body) ==
    IF body.status # None /\ body.status \notin valid_statuses
    THEN HTTPException(400, StatusDetail)
    ELSE IF UpdateData(body) = {}
    THEN HTTPException(400, "No fields to update")
    ELSE NoResponse

\* update_book, after the select: the response that ends the request
\* before the update call, or NoResponse.
UpdateCheck(rows, book_id, user_id, body) ==
    IF ExistingBook(rows, book_id, user_id) = {}
    THEN HTTPException(404, "Book not found")
    ELSE UpdateValidation(body)

\* update_book up to the update call: the select, the 404, the validation.
update_book_check(token, book_id, body, storeOk) ==
    \E auth \in get_current_user(token) :
        /\ auth.ok
        /\ LET user_id == auth.user_id
               calls == <<Call("select", user_id)>>
               Step(resp) ==
                   last' = Request("update", token, user_id, book_id, body,
                                   None, "check", resp, calls)
           IN
           IF ~storeOk
           THEN /\ Step(HTTPException(500, "store error"))
                /\ UNCHANGED pending
           ELSE IF UpdateCheck(books, book_id, user_id, body) # NoResponse
           THEN /\ Step(UpdateCheck(books, book_id, user_id, body))
                /\ UNCHANGED pending
           ELSE /\ BagCardinality(pending) < MaxPending
                /\ Step(NoResponse)
                /\ pending' = pending (+) SetToBag({Frame("update", token,
                                  user_id, book_id, body, UpdateData(body),
                                  calls)})
        /\ UNCHANGED <<books, nextId, clock>>

\* update_book answering the row lost to a concurrent delete as a client
\* error.
UpdateResultClientError(data) ==
    IF data = <<>>
    THEN HTTPException(400, "Failed to update book")
    ELSE Response(200, "", "", data)

\* update_book, after the update call.
UpdateResult(data) ==
    IF data = <<>>
    THEN HTTPException(500, "Failed to update book")
    ELSE Response(200, "", "", data)

update_book_mutate(f, storeOk) ==
    /\ BagIn(f, pending)
    /\ f.op = "update"
    /\ pending' = pending (-) SetToBag({f})
    /\ LET filters == OwnerFilter(f.book_id, f.user_id)
           calls == Append(f.calls, Call("update", f.user_id))
           Done(resp) ==
               last' = Request("update", f.token, f.user_id, f.book_id,
                               f.body, None, "done", resp, calls)
       IN
       IF ~storeOk
       THEN /\ Done(HTTPException(500, "store error"))
            /\ UNCHANGED books
       ELSE /\ books' = UpdateRows(books, f.update_data, filters)
            /\ Done(UpdateResult(AsList(UpdatedData(books, f.update_data,
                                                    filters))))
    /\ UNCHANGED <<nextId, clock>>

\* Ids a client names: every id the store may assign.
BookIds == 1..MaxBooks

Body(title, author, st) == [title |-> title, author |-> author, status |-> st]

\* Bodies a client sends to PATCH /books/{id}: empty, one field, several
\* fields, an empty text, a status outside the enumeration.
UpdateBodies ==
    { NoBody,
      Body("", None, None),
      Body(None, None, "completed"),
      Body("Dune", None, "completed"),
      Body(None, None, "bogus"),
      Body("Dune", None, "") }

\* Bodies a client sends to POST /books: with and without a status, with an
\* empty title, with a status outside the enumeration.
CreateBodies ==
    { Body("Dune", "Herbert", None),
      Body("", "Herbert", "completed"),
      Body("Dune", "Herbert", "bogus"),
      Body("Dune", "Herbert", "") }

\* The step just taken has been observed; the next one starts.
Forget ==
    /\ ~Idle
    /\ last' = NoRequest
    /\ UNCHANGED <<books, nextId, clock, pending>>

\* One step of one request at a time, each observed before the next.
Next ==
    \/ Idle /\ \E op \in Ops, token \in Tokens :
                  RejectUnauthenticated(op, token)
    \/ Idle /\ \E token \in Tokens, body \in CreateBodies,
                  storeOk \in BOOLEAN :
                  create_book(token, body, storeOk)
    \/ Idle /\ \E token \in Tokens, status_filter \in StatusInputs \cup {None},
                  storeOk \in BOOLEAN :
                  get_books(token, status_filter, storeOk)
    \/ Idle /\ \E token \in Tokens, book_id \in BookIds,
                  storeOk \in BOOLEAN :
                  delete_book_check(token, book_id, storeOk)
    \/ Idle /\ \E f \in BagToSet(pending), storeOk \in BOOLEAN :
                  delete_book_mutate(f, storeOk)
    \/ Idle /\ \E token \in Tokens, book_id \in BookIds,
                  body \in UpdateBodies, storeOk \in BOOLEAN :
                  update_book_check(token, book_id, body, storeOk)
    \/ Idle /\ \E f \in BagToSet(pending), storeOk \in BOOLEAN :
                  update_book_mutate(f, storeOk)
    \/ Forget

Spec == Init /\ [][Next]_vars

----------------------------------------------------------------------------
(* Properties *)

StoreRaised(r) == r.resp = HTTPException(500, "store error")

Owns(rows, user_id, book_id) ==
    \E b \in rows : b.id = book_id /\ b.user_id = user_id

Exists(rows, book_id) == \E b \in rows : b.id = book_id

WithoutBook(rows, book_id) == {b \in rows : b.id # book_id}

NotFound == HTTPException(404, "Book not found")

\* C1, for one store: to a caller who does not own book X, the ownership
\* check of update_book (for every body) and of delete_book answers the same
\* with X in the store under another owner as with X absent.
C1_SameAsMissing ==
    \A u \in Users, x \in BookIds :
        (Exists(books, x) /\ ~Owns(books, u, x)) =>
            /\ DeleteCheck(books, x, u) = DeleteCheck(WithoutBook(books, x), x, u)
            /\ \A body \in UpdateBodies :
                 UpdateCheck(books, x, u, body)
                     = UpdateCheck(WithoutBook(books, x), x, u, body)

\* C1, the steps taken: an update_book or delete_book naming a book the
\* caller does not own (another user's, or none) is answered 404 "Book not
\* found" whatever its body, unless the select itself raised, and changes
\* neither the table nor the handlers in flight.
C1_ForeignStep ==
    (/\ last'.op \in {"update", "delete"}
     /\ last'.phase = "check"
     /\ ~Owns(books, last'.user_id, last'.book_id))
    => /\ StoreRaised(last') \/ last'.resp = NotFound
       /\ books' = books
       /\ pending' = pending

\* C1: get_books returns the caller's rows only.
C1_ListOwn ==
    (last.op = "list" /\ last.resp.code = 200) =>
        \A i \in DOMAIN last.resp.data :
            last.resp.data[i].user_id = last.token.sub

\* C1: a row that a step changes or removes belongs to the user the step's
\* request is authenticated as.
C1_OwnerOnly ==
    \A b \in books : b \notin books' =>
        /\ last'.token.sub = b.user_id
        /\ last'.user_id = b.user_id

\* C1: cross-owner indistinguishability: update_book and delete_book answer
\* a caller about another user's book as about a missing one and leave the
\* store alone, get_books returns only the caller's books, and no request
\* changes or deletes another user's book.
C1_CrossOwner ==
    /\ [](C1_SameAsMissing /\ C1_ListOwn)
    /\ [][C1_ForeignStep /\ C1_OwnerOnly]_vars

C1_Witness ==
    /\ last.op = "update"
    /\ last.phase = "check"
    /\ last.body.status = "bogus"
    /\ last.resp = NotFound
    /\ \E b \in books : b.id = last.book_id /\ b.user_id # last.user_id

\* The credentials the claim lists: no header, malformed, wrongly signed
\* (key or algorithm), expired, audience other than "authenticated" (or
\* none), no subject claim (or an empty one).
BadCredential(t) ==
    \/ ~t.header
    \/ ~t.wellformed
    \/ t.alg # "HS256"
    \/ t.key # "SUPABASE_JWT_SECRET"
    \/ t.expired
    \/ t.aud # "authenticated"
    \/ t.sub \notin Users

AuthenticationError(resp) == resp.code \in {401, 403} /\ resp.data = <<>>

\* C2, the state after a step: a request with a bad credential ended with an
\* authentication error and issued no store call; every store call issued,
\* and every row inserted, carries the subject claim of the request's token.
C2_Rejected ==
    /\ (last.op # "none" /\ BadCredential(last.token)) =>
           /\ AuthenticationError(last.resp)
           /\ last.calls = <<>>
    /\ \A i \in DOMAIN last.calls : last.calls[i].user_id = last.token.sub
    /\ \A f \in BagToSet(pending) :
           /\ ~BadCredential(f.token)
           /\ f.user_id = f.token.sub
           /\ \A i \in DOMAIN f.calls : f.calls[i].user_id = f.token.sub
    /\ (last.op = "create" /\ last.resp.code = 200) =>
           last.resp.data[1].user_id = last.token.sub

\* C2, the step: a request with a bad credential leaves the store and the
\* handlers in flight as they were.
C2_NoEffect ==
    (last'.op # "none" /\ BadCredential(last'.token)) =>
        /\ books' = books
        /\ nextId' = nextId
        /\ pending' = pending

\* C2: authentication precedes everything: a request whose credential is
\* missing, malformed, wrongly signed, expired, of another audience or
\* without subject ends with an authentication error, with no store call and
\* the store unchanged; otherwise every store filter and insert uses the
\* token's subject claim.
C2_AuthFirst == []C2_Rejected /\ [][C2_NoEffect]_vars

C2_Witness ==
    /\ last.op = "delete"
    /\ last.phase = "auth"
    /\ last.token.aud = "anon"
    /\ last.resp.code = 401
    /\ books # {}

\* The status a create_book body asks for is outside the enumeration.
CreateStatusInvalid(body) ==
    body.status # None /\ body.status \notin valid_statuses

\* C3, the state after a step: every stored status is in the enumeration; a
\* create_book with a status outside it was answered 400 with no store call;
\* a create_book without status stored "reading".
C3_Stored ==
    /\ \A b \in books : b.status \in {"reading", "completed", "wishlist"}
    /\ (last.op = "create" /\ CreateStatusInvalid(last.body)) =>
           /\ last.resp.code = 400
           /\ last.calls = <<>>
    /\ (last.op = "create" /\ last.resp.code = 200 /\ last.body.status = None) =>
           /\ last.resp.data[1].status = "reading"
           /\ last.resp.data[1] \in books

\* C3, the step: a create_book with a status outside the enumeration
\* persists nothing.
C3_NoRecord ==
    (last'.op = "create" /\ CreateStatusInvalid(last'.body)) =>
        books' = books /\ nextId' = nextId

\* C3: status invariant: under every interleaving of requests every stored
\* status is one of reading, completed, wishlist; a create with another
\* status is a client error and persists nothing; a create without status
\* persists "reading".
C3_StatusInvariant == []C3_Stored /\ [][C3_NoRecord]_vars

C3_Witness ==
    /\ last.op = "update"
    /\ last.body.status = "bogus"
    /\ last.resp.code = 400
    /\ \E b \in books : b.id = last.book_id /\ b.status = "completed"

\* C4: get_books with a status_filter that is supplied and not one of
\* reading, completed, wishlist (the empty string included) ends with a
\* 400, never a server error or a list.
C4_InvalidFilterIs400 ==
    (/\ last.op = "list"
     /\ last.phase = "done"
     /\ last.status_filter # None
     /\ last.status_filter \notin valid_statuses)
    => last.resp.code = 400

\* The request was rejected for its input: the 400 of create_book and
\* update_book, and the answer of get_books to an invalid status filter.
ValidationRejected(r) ==
    \/ r.resp.code = 400
    \/ r.op = "list" /\ r.resp = ListInvalidFilter

\* C5 as stated: a request rejected with a validation error has issued no
\* store call.
C5_NoCallBeforeValidation ==
    ValidationRejected(last) => last.calls = <<>>

\* C5, amended, the state after a step: a request rejected with a
\* validation error has issued no insert, update or delete; create_book and
\* get_books have issued no store call at all, update_book exactly its
\* owner-scoped select.
C5_Calls ==
    ValidationRejected(last) =>
        /\ \A i \in DOMAIN last.calls : last.calls[i].kind = "select"
        /\ last.op \in {"create", "list"} => last.calls = <<>>
        /\ last.op = "update" =>
               last.calls = <<Call("select", last.token.sub)>>
        /\ last.op # "delete"

\* C5, amended: validation precedes every mutating store call, and all
\* store access in create_book and get_books; update_book validates after
\* its owner-scoped select and before its update call.
C5_ValidationBeforeMutation ==
    /\ []C5_Calls
    /\ [][ValidationRejected(last') => books' = books /\ pending' = pending]_vars

C5_Witness ==
    /\ last.op = "update"
    /\ last.resp.code = 400
    /\ last.calls = <<Call("select", last.user_id)>>
    /\ Owns(books, last.user_id, last.book_id)

\* C6: an update_book or delete_book whose book passed the ownership check
\* and is gone when the mutate call is issued ends with a server error.
C6_RaceIsServerError ==
    [][(/\ last'.op \in {"update", "delete"}
        /\ last'.phase = "done"
        /\ ~Exists(books, last'.book_id))
       => last'.resp.code = 500]_vars

\* The row update_book is to leave for row x and the given body.
Patched(x, body) ==
    [x EXCEPT !.title = IF body.title # None THEN body.title ELSE @,
              !.author = IF body.author # None THEN body.author ELSE @,
              !.status = IF body.status # None THEN body.status ELSE @]

\* C7, the step of a successful update_book: the row named changes in the
\* supplied fields only, to the supplied values, and is the response; every
\* other row stays.
C7_Frame ==
    (last'.op = "update" /\ last'.phase = "done" /\ last'.resp.code = 200) =>
        \E x \in books :
            /\ x.id = last'.book_id
            /\ books' = (books \ {x}) \cup {Patched(x, last'.body)}
            /\ last'.resp.data = <<Patched(x, last'.body)>>

\* C7, every step: a row keeps its id, user_id and created_at; a new row
\* is create_book's and has the user id of its request's token.
C7_Immutable ==
    /\ \A x \in books, y \in books' :
           x.id = y.id => x.user_id = y.user_id /\ x.created_at = y.created_at
    /\ \A y \in books' : ~Exists(books, y.id) =>
           last'.op = "create" /\ y.user_id = last'.token.sub
    /\ \A y, z \in books' : y.id = z.id => y = z

\* C7: partial-update frame: a successful update_book changes exactly the
\* supplied fields of its book and nothing else in the store; id, user_id
\* and created_at never change, and user_id is the authenticated creator.
C7_PartialUpdate == [][C7_Frame /\ C7_Immutable]_vars

C7_Witness ==
    /\ last.op = "update"
    /\ last.phase = "done"
    /\ last.resp.code = 200
    /\ last.body = Body("", None, None)
    /\ Cardinality(books) = 2
    /\ \E b \in books : b.id = last.book_id /\ b.status = "completed"

\* C8, the step: a request that ends with an error leaves the table as it
\* was; update_book on an owned book with no field supplied is answered 400
\* "No fields to update".
C8_Step ==
    /\ last'.resp.code >= 400 => books' = books /\ nextId' = nextId
    /\ (/\ last'.op = "update"
        /\ last'.phase = "check"
        /\ last'.body = NoBody
        /\ Owns(books, last'.user_id, last'.book_id)
        /\ ~StoreRaised(last'))
       => last'.resp = HTTPException(400, "No fields to update")

\* C8: all-or-nothing on error: every request that ends with an error
\* response leaves the stored books as they were, and an update_book with no
\* field is a client error that modifies nothing.
C8_AllOrNothing == [][C8_Step]_vars

C8_Witness ==
    /\ last.op = "update"
    /\ last.phase = "done"
    /\ last.resp = HTTPException(500, "Failed to update book")
    /\ books # {}

\* C9: get_books returns exactly the caller's rows (of the status asked
\* for, when a valid one is), each once, newest first.
C9_ListResult ==
    (/\ last.op = "list"
     /\ last.resp.code = 200
     /\ last.status_filter \in valid_statuses \cup {None})
    => LET data == last.resp.data
           want == {b \in books :
                      /\ b.user_id = last.token.sub
                      /\ last.status_filter # None =>
                             b.status = last.status_filter}
       IN /\ {data[i] : i \in DOMAIN data} = want
          /\ Len(data) = Cardinality(want)
          /\ \A i, j \in DOMAIN data :
                 i < j => data[i].created_at >= data[j].created_at

C9_Witness ==
    /\ last.op = "list"
    /\ last.status_filter = "reading"
    /\ Len(last.resp.data) = 1
    /\ Cardinality({b \in books : b.user_id = last.user_id}) = 2

\* C10: every stored book has a non-empty title and a non-empty author.
C10_NonEmptyText ==
    \A b \in books : b.title # "" /\ b.author # ""

====
